---- MODULE Spec2Model ----
(***************************************************************************)
(* lyricsync: embedding of .lrc sidecar files into the tag containers of   *)
(* FLAC / MP3 / M4A files (src/src/main.rs).  The model follows embed_lrc  *)
(* statement by statement over a small directory tree; the audio-tag       *)
(* codec and the filesystem are the environment, whose failures are        *)
(* nondeterministic choices.                                               *)
(***************************************************************************)
EXTENDS Integers, Sequences, FiniteSets, TLC

\* ------------------------------------------------------------------ bounds
\* Number of consecutive invocations of the program in one behaviour.
MaxRuns == 2
\* Number of transient I/O failures the environment injects in one behaviour.
MaxFaults == 1

\* ----------------------------------------------------------- paths (std::path)
\* A path is [dir, name]; a file name is the sequence of its dot-separated
\* segments ("a.lrc.failed" is <<"a", "lrc", "failed">>, ".flac" is <<"", "flac">>).
NoExt == "<none>"

\* Path::extension / Path::file_stem have no extension to split off when the
\* name has no dot, or only a leading one.
HasExtension(name) ==
  /\ Len(name) >= 2
  /\ ~(Len(name) = 2 /\ name[1] = "")

Extension(name) == IF HasExtension(name) THEN name[Len(name)] ELSE NoExt

FileStem(name) == IF HasExtension(name) THEN SubSeq(name, 1, Len(name) - 1) ELSE name

\* audio_path.with_file_name(format!("{}.lrc", file_stem))
LrcPath(audio_path) == [audio_path EXCEPT !.name = FileStem(audio_path.name) \o <<"lrc">>]

\* lrc_path.with_extension("lrc.failed")
FailedLrcPath(lrc_path) == [lrc_path EXCEPT !.name = FileStem(lrc_path.name) \o <<"lrc", "failed">>]

\* The scanner's filter: matches!(ext.to_str(), Some("flac" | "mp3" | "m4a"))
SupportedExt == {"flac", "mp3", "m4a"}

\* ------------------------------------------------------- the directory tree
\* The places an audio file can be at.  Two of them are in the root and share
\* the stem "a" (and so the sidecar a.lrc); the third is in a direct
\* subdirectory.  A tree holds a.flac and one of the other two.
AudioFlac == [dir |-> "root", name |-> <<"a", "flac">>]
AudioMp3 == [dir |-> "root", name |-> <<"a", "mp3">>]
AudioM4a == [dir |-> "sub", name |-> <<"b", "m4a">>]
AudioPaths == {AudioFlac, AudioMp3, AudioM4a}

\* Every path at which the program reads, deletes or creates a text file.
TxtPaths == {LrcPath(a) : a \in AudioPaths} \cup {FailedLrcPath(LrcPath(a)) : a \in AudioPaths}

\* Entries that are neither audio files nor sidecars: a directory whose name
\* ends in .mp3, a text file, a file with the extension in capitals, a
\* dot-file named ".flac", the subdirectory.
OtherEntries ==
  { [path |-> [dir |-> "root", name |-> <<"sub">>], is_file |-> FALSE],
    [path |-> [dir |-> "root", name |-> <<"d", "mp3">>], is_file |-> FALSE],
    [path |-> [dir |-> "root", name |-> <<"n", "txt">>], is_file |-> TRUE],
    [path |-> [dir |-> "root", name |-> <<"c", "FLAC">>], is_file |-> TRUE],
    [path |-> [dir |-> "sub", name |-> <<"", "flac">>], is_file |-> TRUE] }

\* walkdir depth of an entry: children of the root are at depth 1.
Depth(path) == IF path.dir = "root" THEN 1 ELSE 2

\* ------------------------------------------------------------- containers
NoFile == "<absent>"
NoValue == "<none>"
Contents == {"La", "Lb"}
OldLyrics == "old"

\* The lyric fields has_embedded_lyrics looks at, and the one embed_lrc_to_*
\* writes, per format.
WrittenKey(ext) ==
  CASE ext = "flac" -> "LYRICS"
    [] ext = "mp3" -> "USLT"
    [] ext = "m4a" -> "lyr"

OtherKeys(ext) ==
  CASE ext = "flac" -> {"UNSYNCEDLYRICS"}
    [] ext = "mp3" -> {"SYLT"}
    [] ext = "m4a" -> {}

LyricKeys(ext) == {WrittenKey(ext)} \cup OtherKeys(ext)

\* A container: corrupt (the codec cannot parse it), otherwise has_tag says
\* whether it carries the tag block of its family (Vorbis comments / ID3v2 /
\* ilst) and fields gives the lyric fields of that block.
EmptyFields(ext) == [k \in LyricKeys(ext) |-> NoValue]

CorruptContainer(ext) == [corrupt |-> TRUE, has_tag |-> FALSE, fields |-> EmptyFields(ext)]
UntaggedContainer(ext) == [corrupt |-> FALSE, has_tag |-> FALSE, fields |-> EmptyFields(ext)]
TaggedContainer(ext, fields) == [corrupt |-> FALSE, has_tag |-> TRUE, fields |-> fields]

InitialContainers(ext) ==
  { CorruptContainer(ext), UntaggedContainer(ext), TaggedContainer(ext, EmptyFields(ext)) }
  \cup { TaggedContainer(ext, [EmptyFields(ext) EXCEPT ![k] = OldLyrics]) : k \in LyricKeys(ext) }

\* What the sidecar at a path says, when it is there at the start.
SidecarText(path) == IF path.dir = "root" THEN "La" ELSE "Lb"

Trees == {{AudioFlac, AudioMp3}, {AudioFlac, AudioM4a}}

VARIABLES
  root_exists,    \* whether the directory given to the program exists
  present,        \* the audio files of the tree
  files,          \* text files on disk: TxtPaths -> content or NoFile
  container,      \* audio files on disk: AudioPaths -> container
  run,            \* number of invocations of the program started so far
  faults,         \* transient I/O failures injected so far
  pc,             \* position of the running invocation
  argv,           \* the options on the command line, --directory aside
  stdout,         \* what the invocation has printed to standard output
  skip_existing, reduce_lrc, recursive,   \* the flags of the invocation
  audio_files,    \* the scanner's result
  idx,            \* position of the for loop in audio_files
  stats,          \* EmbedStats
  lyrics_content, \* local of embed_lrc_to_file
  ret,            \* what embed_lrc returned
  exit_status,    \* the process status of the invocation
  outcome,        \* per audio file, its state in the per-file state machine
  detected,       \* per audio file, what has_embedded_lyrics returned (this run)
  mutated,        \* audio files embed_lrc_to_file was called on (this run)
  saved,          \* audio files whose container was saved (this run)
  renamed,        \* audio files whose sidecar got the failure suffix (this run)
  prev,           \* outcome and renamed of the previous run
  start           \* the text files and containers as the run found them

vars == << root_exists, present, files, container, run, faults, pc, argv, stdout, skip_existing, reduce_lrc, recursive,
           audio_files, idx, stats, lyrics_content, ret, exit_status,
           outcome, detected, mutated, saved, renamed, prev, start >>

fsVars == << root_exists, present, files, container >>
flagVars == << argv, skip_existing, reduce_lrc, recursive >>
ghostVars == << detected, mutated, saved, renamed >>

NoOutcome == [a \in AudioPaths |-> "NotDiscovered"]
NoDetection == [a \in AudioPaths |-> "NotCalled"]
EmptyStats == [total_audio_files |-> 0, embedded_lyrics |-> 0, failed_files |-> << >>]
NoPrev == [outcome |-> NoOutcome, renamed |-> {}]

Init ==
  /\ root_exists \in BOOLEAN
  /\ present \in IF root_exists THEN Trees ELSE {{}}
  /\ files \in [TxtPaths -> Contents \cup {NoFile}]
  /\ \A p \in TxtPaths :
       files[p] # NoFile => /\ p \in {LrcPath(a) : a \in present}
                            /\ files[p] = SidecarText(p)
  /\ container \in [AudioPaths -> UNION {InitialContainers(e) : e \in SupportedExt}]
  /\ \A a \in AudioPaths :
       container[a] \in IF a \in present
                        THEN InitialContainers(Extension(a.name))
                        ELSE {UntaggedContainer(Extension(a.name))}
  /\ run = 0
  /\ faults = 0
  /\ pc = "idle"
  /\ argv = {} /\ stdout = {}
  /\ skip_existing = FALSE /\ reduce_lrc = FALSE /\ recursive = FALSE
  /\ audio_files = << >>
  /\ idx = 0
  /\ stats = EmptyStats
  /\ lyrics_content = NoValue
  /\ ret = "none"
  /\ exit_status = "none"
  /\ outcome = NoOutcome
  /\ detected = NoDetection /\ mutated = {} /\ saved = {} /\ renamed = {}
  /\ prev = NoPrev
  /\ start = [files |-> files, container |-> container]

\* ------------------------------------------------------------ pure helpers
Orderings(S) == {s \in [1..Cardinality(S) -> S] : \A i, j \in 1..Cardinality(S) : s[i] = s[j] => i = j}

\* What WalkDir yields and filter_map(|e| e.ok()) keeps: the audio files, the
\* text files that exist, the rest; for a directory that does not exist the
\* walk yields one error, which is dropped.
Entries ==
  IF root_exists
  THEN {[path |-> a, is_file |-> TRUE] : a \in present}
       \cup {[path |-> p, is_file |-> TRUE] : p \in {q \in TxtPaths : files[q] # NoFile}}
       \cup OtherEntries
  ELSE {}

\* Walker descending whatever the flag says.
WalkerAllDepths(rec) == Entries

\* WalkDir::new(directory) or WalkDir::new(directory).max_depth(1)
Walker(rec) == {e \in Entries : rec \/ Depth(e.path) <= 1}

\* ScanResult comparing the extension without regard to case.
ScanResultAnyCase(rec) ==
  {e.path : e \in {w \in Walker(rec) :
                     /\ w.is_file
                     /\ Extension(w.path.name) \in SupportedExt \cup {"FLAC", "MP3", "M4A"}}}

\* ScanResult keeping only the files that have a sidecar.
ScanResultWithSidecar(rec) ==
  {e.path : e \in {w \in Walker(rec) : /\ w.is_file
                                       /\ Extension(w.path.name) \in SupportedExt
                                       /\ files[LrcPath(w.path)] # NoFile}}

\* .filter(is_file && extension is flac | mp3 | m4a).map(into_path)
ScanResult(rec) ==
  {e.path : e \in {w \in Walker(rec) : w.is_file /\ Extension(w.path.name) \in SupportedExt}}

\* The branch of has_embedded_lyrics' if / else if chain a path takes: "none"
\* when it takes none of them and falls through to the final Ok(false).
DetectorBranch(audio_path) ==
  LET ext == Extension(audio_path.name) IN
  CASE ext = "flac" -> "flac"
    [] ext = "mp3" -> "mp3"
    [] ext = "m4a" -> "m4a"
    [] OTHER -> "none"

\* has_embedded_lyrics once the file is open: "Err" when the codec cannot parse
\* the container, otherwise whether one of the format's lyric fields is there;
\* a container without the tag block, or another extension, falls through to
\* Ok(false).
HasEmbeddedLyrics(audio_path, c) ==
  LET ext == Extension(audio_path.name) IN
  IF DetectorBranch(audio_path) # "none"
  THEN IF c.corrupt THEN "Err"
       ELSE IF c.has_tag
            THEN IF \E k \in LyricKeys(ext) : c.fields[k] # NoValue THEN "Present" ELSE "Absent"
            ELSE "Absent"
  ELSE "Absent"

\* embed_lrc_to_flac / _mp3 / _m4a: io is what the environment does to the
\* open and to the save.  The result says whether the function returned Ok,
\* the container now on disk and whether a save completed.
IoChoices == {"ok", "open_fails", "save_fails_intact", "save_fails_corrupt"}

EmbedInto(c, key, lyrics, io) ==
  IF io = "open_fails" \/ c.corrupt
  THEN [ok |-> FALSE, err |-> "Io", container |-> c, saved |-> FALSE]
  ELSE IF c.has_tag
       THEN IF io = "ok"
            THEN [ok |-> TRUE, err |-> "none",
                  container |-> [c EXCEPT !.fields[key] = lyrics], saved |-> TRUE]
            ELSE [ok |-> FALSE, err |-> "Io",
                  container |-> IF io = "save_fails_corrupt"
                                THEN [c EXCEPT !.corrupt = TRUE] ELSE c,
                  saved |-> FALSE]
       ELSE [ok |-> TRUE, err |-> "none", container |-> c, saved |-> FALSE]

EmbedLrcToFlac(c, lyrics, io) == EmbedInto(c, "LYRICS", lyrics, io)

EmbedLrcToMp3(c, lyrics, io) == EmbedInto(c, "USLT", lyrics, io)

EmbedLrcToM4a(c, lyrics, io) == EmbedInto(c, "lyr", lyrics, io)

\* The format dispatch of embed_lrc_to_file, with its UnsupportedFormat branch.
EmbedDispatch(audio_path, c, lyrics, io) ==
  LET ext == Extension(audio_path.name) IN
  CASE ext = "flac" -> EmbedLrcToFlac(c, lyrics, io)
    [] ext = "mp3" -> EmbedLrcToMp3(c, lyrics, io)
    [] ext = "m4a" -> EmbedLrcToM4a(c, lyrics, io)
    [] OTHER -> [ok |-> FALSE, err |-> "UnsupportedFormat", container |-> c, saved |-> FALSE]

\* ----------------------------------------------------------------- actions
InLoop == idx >= 1 /\ idx <= Len(audio_files)
audio_path == audio_files[idx]
lrc_path == LrcPath(audio_path)
CanFault == faults < MaxFaults

\* NextFile without the cursor moving on.
NextFileStays ==
  /\ idx' = idx
  /\ pc' = "loop"
  /\ lyrics_content' = NoValue

\* pb.inc(1) and the end of a loop iteration.
NextFile ==
  /\ idx' = idx + 1
  /\ pc' = "loop"
  /\ lyrics_content' = NoValue

\* The options main defines with Arg::new, --directory and
\* --generate-completion aside.
KnownOptions == {"skip", "reduce", "recursive"}

\* The options a command line of the model may carry.
Options == KnownOptions \cup {"dry-run"}

\* main: get_matches accepts the command line, the banner is printed, the
\* flags are read and embed_lrc is called.
MainStart ==
  /\ pc = "idle"
  /\ run < MaxRuns
  /\ run' = run + 1
  /\ argv' \in SUBSET KnownOptions
  /\ stdout' = {"banner"}
  /\ skip_existing' = ("skip" \in argv')
  /\ reduce_lrc' = ("reduce" \in argv')
  /\ recursive' = ("recursive" \in argv')
  /\ stats' = EmptyStats
  /\ audio_files' = << >>
  /\ idx' = 0
  /\ ret' = "none"
  /\ exit_status' = "none"
  /\ prev' = [outcome |-> outcome, renamed |-> renamed]
  /\ start' = [files |-> files, container |-> container]
  /\ outcome' = NoOutcome
  /\ detected' = NoDetection /\ mutated' = {} /\ saved' = {} /\ renamed' = {}
  /\ pc' = "scan"
  /\ UNCHANGED << fsVars, faults, lyrics_content >>

\* main: get_matches meets an option no Arg::new defines; clap writes the
\* error to standard error and exits with its usage status, before the
\* banner and before embed_lrc.
MainUsageError ==
  /\ pc = "idle"
  /\ run < MaxRuns
  /\ run' = run + 1
  /\ argv' \in {o \in SUBSET Options : ~(o \subseteq KnownOptions)}
  /\ stdout' = {}
  /\ skip_existing' = FALSE /\ reduce_lrc' = FALSE /\ recursive' = FALSE
  /\ stats' = EmptyStats
  /\ audio_files' = << >>
  /\ idx' = 0
  /\ ret' = "none"
  /\ exit_status' = "usage_error"
  /\ prev' = [outcome |-> outcome, renamed |-> renamed]
  /\ start' = [files |-> files, container |-> container]
  /\ outcome' = NoOutcome
  /\ detected' = NoDetection /\ mutated' = {} /\ saved' = {} /\ renamed' = {}
  /\ pc' = "idle"
  /\ UNCHANGED << fsVars, faults, lyrics_content >>

\* embed_lrc: the walk, the filter and total_audio_files.
Scan ==
  /\ pc = "scan"
  /\ audio_files' \in Orderings(ScanResult(recursive))
  /\ stats' = [stats EXCEPT !.total_audio_files = Len(audio_files')]
  /\ outcome' = [a \in AudioPaths |->
                   IF a \in ScanResult(recursive) THEN "Discovered" ELSE "NotDiscovered"]
  /\ idx' = 1
  /\ pc' = "loop"
  /\ UNCHANGED << fsVars, run, faults, flagVars, stdout, lyrics_content, ret, exit_status, ghostVars, prev, start >>

\* SidecarMissing without the continue: the file goes on to the mutator.
SidecarMissingFallsThrough ==
  /\ pc = "loop" /\ InLoop
  /\ files[lrc_path] = NoFile
  /\ outcome' = [outcome EXCEPT ![audio_path] = "SidecarMissing"]
  /\ pc' = "embed"
  /\ UNCHANGED << fsVars, run, faults, flagVars, stdout, audio_files, idx, stats, lyrics_content,
                  ret, exit_status, ghostVars, prev, start >>

\* if !lrc_path.exists() { pb.inc(1); continue; }
SidecarMissing ==
  /\ pc = "loop" /\ InLoop
  /\ files[lrc_path] = NoFile
  /\ outcome' = [outcome EXCEPT ![audio_path] = "SidecarMissing"]
  /\ NextFile
  /\ UNCHANGED << fsVars, run, faults, flagVars, stdout, audio_files, stats, ret, exit_status, ghostVars, prev, start >>

\* SidecarFound with the detector consulted whatever the flag says.
SidecarFoundAlwaysDetects ==
  /\ pc = "loop" /\ InLoop
  /\ files[lrc_path] # NoFile
  /\ pc' = "detect"
  /\ UNCHANGED << fsVars, run, faults, flagVars, stdout, audio_files, idx, stats, lyrics_content,
                  ret, exit_status, outcome, ghostVars, prev, start >>

\* The sidecar exists: to the detector under --skip, else to the mutator.
SidecarFound ==
  /\ pc = "loop" /\ InLoop
  /\ files[lrc_path] # NoFile
  /\ IF skip_existing
     THEN pc' = "detect" /\ UNCHANGED outcome
     ELSE pc' = "embed" /\ outcome' = [outcome EXCEPT ![audio_path] = "Embedding"]
  /\ UNCHANGED << fsVars, run, faults, flagVars, stdout, audio_files, idx, stats, lyrics_content,
                  ret, exit_status, ghostVars, prev, start >>

\* match has_embedded_lyrics(&audio_path): Ok(true)
DetectPresent ==
  /\ pc = "detect"
  /\ HasEmbeddedLyrics(audio_path, container[audio_path]) = "Present"
  /\ detected' = [detected EXCEPT ![audio_path] = "Present"]
  /\ outcome' = [outcome EXCEPT ![audio_path] = "LyricsAlreadyPresent"]
  /\ NextFile
  /\ UNCHANGED << fsVars, run, faults, flagVars, stdout, audio_files, stats, ret, exit_status,
                  mutated, saved, renamed, prev, start >>

\* Ok(false) => {}
DetectAbsent ==
  /\ pc = "detect"
  /\ HasEmbeddedLyrics(audio_path, container[audio_path]) = "Absent"
  /\ detected' = [detected EXCEPT ![audio_path] = "Absent"]
  /\ outcome' = [outcome EXCEPT ![audio_path] = "Embedding"]
  /\ pc' = "embed"
  /\ UNCHANGED << fsVars, run, faults, flagVars, stdout, audio_files, idx, stats, lyrics_content,
                  ret, exit_status, mutated, saved, renamed, prev, start >>

\* DetectError with the error taken for "lyrics present": the file is skipped.
DetectErrorSkips ==
  /\ pc = "detect"
  /\ \/ HasEmbeddedLyrics(audio_path, container[audio_path]) = "Err" /\ UNCHANGED faults
     \/ CanFault /\ faults' = faults + 1
  /\ detected' = [detected EXCEPT ![audio_path] = "Err"]
  /\ outcome' = [outcome EXCEPT ![audio_path] = "LyricsAlreadyPresent"]
  /\ NextFile
  /\ UNCHANGED << fsVars, run, flagVars, stdout, audio_files, stats, ret, exit_status,
                  mutated, saved, renamed, prev, start >>

\* Err(e) => eprintln!: the file cannot be opened, or the codec cannot parse it.
DetectError ==
  /\ pc = "detect"
  /\ \/ HasEmbeddedLyrics(audio_path, container[audio_path]) = "Err" /\ UNCHANGED faults
     \/ CanFault /\ faults' = faults + 1
  /\ detected' = [detected EXCEPT ![audio_path] = "Err"]
  /\ outcome' = [outcome EXCEPT ![audio_path] = "Embedding"]
  /\ pc' = "embed"
  /\ UNCHANGED << fsVars, run, flagVars, stdout, audio_files, idx, stats, lyrics_content,
                  ret, exit_status, mutated, saved, renamed, prev, start >>

\* embed_lrc_to_file: fs::read_to_string(lrc_path)?
ReadSidecar ==
  /\ pc = "embed"
  /\ mutated' = mutated \cup {audio_path}
  /\ \/ /\ files[lrc_path] # NoFile
        /\ lyrics_content' = files[lrc_path]
        /\ pc' = "mutate"
        /\ UNCHANGED faults
     \/ /\ files[lrc_path] = NoFile \/ CanFault
        /\ faults' = IF files[lrc_path] = NoFile THEN faults ELSE faults + 1
        /\ pc' = "embed_err"
        /\ UNCHANGED lyrics_content
  /\ UNCHANGED << fsVars, run, flagVars, stdout, audio_files, idx, stats, ret, exit_status,
                  outcome, detected, saved, renamed, prev, start >>

\* embed_lrc_to_file: the format branch, embed_lrc_to_flac / _mp3 / _m4a.
Mutate ==
  /\ pc = "mutate"
  /\ \E io \in IoChoices :
       /\ io # "ok" => CanFault
       /\ LET r == EmbedDispatch(audio_path, container[audio_path], lyrics_content, io) IN
          \* a failure is the environment's only where it changes what happens
          /\ io # "ok" => r # EmbedDispatch(audio_path, container[audio_path], lyrics_content, "ok")
          /\ faults' = IF io = "ok" THEN faults ELSE faults + 1
          /\ container' = [container EXCEPT ![audio_path] = r.container]
          /\ saved' = IF r.saved THEN saved \cup {audio_path} ELSE saved
          /\ pc' = IF r.ok THEN "reduce" ELSE "embed_err"
  /\ UNCHANGED << root_exists, present, files, run, flagVars, stdout, audio_files, idx, stats, lyrics_content, ret,
                  exit_status, outcome, detected, mutated, renamed, prev, start >>

\* Reduce with the sidecar removed whatever the flag says.
ReduceIgnoresFlag ==
  /\ pc = "reduce"
  /\ files' = [files EXCEPT ![lrc_path] = NoFile]
  /\ pc' = "embed_ok"
  /\ UNCHANGED << root_exists, present, container, run, faults, flagVars, stdout, audio_files, idx, stats,
                  lyrics_content, ret, exit_status, outcome, ghostVars, prev, start >>

\* embed_lrc_to_file: if reduce_lrc { fs::remove_file(lrc_path)?; } Ok(())
Reduce ==
  /\ pc = "reduce"
  /\ IF reduce_lrc
     THEN \/ /\ files[lrc_path] # NoFile
             /\ files' = [files EXCEPT ![lrc_path] = NoFile]
             /\ pc' = "embed_ok"
             /\ UNCHANGED faults
          \/ /\ files[lrc_path] = NoFile \/ CanFault
             /\ faults' = IF files[lrc_path] = NoFile THEN faults ELSE faults + 1
             /\ pc' = "embed_err"
             /\ UNCHANGED files
     ELSE pc' = "embed_ok" /\ UNCHANGED << files, faults >>
  /\ UNCHANGED << root_exists, present, container, run, flagVars, stdout, audio_files, idx, stats, lyrics_content, ret,
                  exit_status, outcome, ghostVars, prev, start >>

\* Ok(()) => { stats.embedded_lyrics += 1; }
RecordOk ==
  /\ pc = "embed_ok"
  /\ stats' = [stats EXCEPT !.embedded_lyrics = @ + 1]
  /\ outcome' = [outcome EXCEPT ![audio_path] = "Embedded"]
  /\ NextFile
  /\ UNCHANGED << fsVars, run, faults, flagVars, stdout, audio_files, ret, exit_status, ghostVars, prev, start >>

\* RecordErr with the failure also counted as an embedding.
RecordErrCountsEmbedded ==
  /\ pc = "embed_err"
  /\ stats' = [stats EXCEPT !.failed_files = Append(@, audio_path),
                            !.embedded_lyrics = @ + 1]
  /\ outcome' = [outcome EXCEPT ![audio_path] = "EmbedFailed"]
  /\ NextFile
  /\ UNCHANGED << fsVars, run, faults, flagVars, stdout, audio_files, ret, exit_status, ghostVars, prev, start >>

\* RecordErr with the sidecar removed instead of renamed.
RecordErrDeletesSidecar ==
  /\ pc = "embed_err"
  /\ stats' = [stats EXCEPT !.failed_files = Append(@, audio_path)]
  /\ outcome' = [outcome EXCEPT ![audio_path] = "EmbedFailed"]
  /\ files' = [files EXCEPT ![lrc_path] = NoFile]
  /\ UNCHANGED << faults, renamed >>
  /\ NextFile
  /\ UNCHANGED << root_exists, present, container, run, flagVars, stdout, audio_files, ret, exit_status,
                  detected, mutated, saved, prev, start >>

\* RecordErr with the sidecar copied to the failure path and left in place.
RecordErrCopiesSidecar ==
  /\ pc = "embed_err"
  /\ stats' = [stats EXCEPT !.failed_files = Append(@, audio_path)]
  /\ outcome' = [outcome EXCEPT ![audio_path] = "EmbedFailed"]
  /\ files[lrc_path] # NoFile
  /\ files' = [files EXCEPT ![FailedLrcPath(lrc_path)] = files[lrc_path]]
  /\ renamed' = renamed \cup {audio_path}
  /\ UNCHANGED faults
  /\ NextFile
  /\ UNCHANGED << root_exists, present, container, run, flagVars, stdout, audio_files, ret, exit_status,
                  detected, mutated, saved, prev, start >>

\* RecordErr with the error propagated out of embed_lrc (a `?` on the call).
RecordErrPropagates ==
  /\ pc = "embed_err"
  /\ stats' = [stats EXCEPT !.failed_files = Append(@, audio_path)]
  /\ outcome' = [outcome EXCEPT ![audio_path] = "EmbedFailed"]
  /\ ret' = "Err"
  /\ pc' = "returned"
  /\ UNCHANGED << fsVars, run, faults, flagVars, stdout, audio_files, idx, lyrics_content,
                  exit_status, ghostVars, prev, start >>

\* Err(e) => { failed_files.push; fs::rename(&lrc_path, &failed_lrc_path) }
RecordErr ==
  /\ pc = "embed_err"
  /\ stats' = [stats EXCEPT !.failed_files = Append(@, audio_path)]
  /\ outcome' = [outcome EXCEPT ![audio_path] = "EmbedFailed"]
  /\ \/ /\ files[lrc_path] # NoFile
        /\ files' = [files EXCEPT ![FailedLrcPath(lrc_path)] = files[lrc_path],
                                  ![lrc_path] = NoFile]
        /\ renamed' = renamed \cup {audio_path}
        /\ UNCHANGED faults
     \/ /\ files[lrc_path] = NoFile \/ CanFault
        /\ faults' = IF files[lrc_path] = NoFile THEN faults ELSE faults + 1
        /\ UNCHANGED << files, renamed >>
  /\ NextFile
  /\ UNCHANGED << root_exists, present, container, run, flagVars, stdout, audio_files, ret, exit_status,
                  detected, mutated, saved, prev, start >>

\* pb.finish_with_message("Completed!"); Ok(stats)
Return ==
  /\ pc = "loop" /\ idx > Len(audio_files)
  /\ ret' = "Ok"
  /\ pc' = "returned"
  /\ UNCHANGED << fsVars, run, faults, flagVars, stdout, audio_files, idx, stats, lyrics_content,
                  exit_status, outcome, ghostVars, prev, start >>

\* main: let stats = embed_lrc(..)?; the summary; Ok(())
MainFinish ==
  /\ pc = "returned"
  /\ stdout' = IF ret = "Ok" THEN stdout \cup {"summary"} ELSE stdout
  /\ exit_status' = IF ret = "Ok" THEN "success" ELSE "failure"
  /\ pc' = "idle"
  /\ UNCHANGED << fsVars, run, faults, flagVars, audio_files, idx, stats, lyrics_content,
                  ret, outcome, ghostVars, prev, start >>

Next ==
  \/ MainStart
  \/ MainUsageError
  \/ Scan
  \/ SidecarMissing
  \/ SidecarFound
  \/ DetectPresent
  \/ DetectAbsent
  \/ DetectError
  \/ ReadSidecar
  \/ Mutate
  \/ Reduce
  \/ RecordOk
  \/ RecordErr
  \/ Return
  \/ MainFinish

Spec == Init /\ [][Next]_vars

\* The program is sequential and nothing blocks: a started step completes.
FairSpec == Spec /\ WF_vars(Next)

\* ------------------------------------------------------------------ claims
Terminal == {"SidecarMissing", "LyricsAlreadyPresent", "Embedded", "EmbedFailed"}
Count(o) == Cardinality({a \in AudioPaths : outcome[a] = o})
InFailedFiles(a) == \E i \in 1..Len(stats.failed_files) : stats.failed_files[i] = a
Returned == pc = "returned" \/ (pc = "idle" /\ ret = "Ok")

\* C1: at every point of a run, embedded_count + files with no sidecar + files
\* skipped for pre-existing lyrics + length(failed_files) is at most
\* total_audio_files, and equals it once embed_lrc has returned.
C1_Accounting ==
  LET sum == stats.embedded_lyrics + Count("SidecarMissing")
             + Count("LyricsAlreadyPresent") + Len(stats.failed_files) IN
  /\ sum <= stats.total_audio_files
  /\ Returned => sum = stats.total_audio_files

\* A run that returned with one file embedded and one failed.
C1_Witness ==
  /\ pc = "returned"
  /\ stats.total_audio_files = 2
  /\ stats.embedded_lyrics = 1
  /\ Len(stats.failed_files) = 1

\* C2 (as claimed): a file embedded by one run, whose sidecar is still there
\* when the next run, under --skip, processes it, ends that run in
\* LyricsAlreadyPresent (no I/O failure being injected in either run).
C2_SkipIdempotence ==
  \A a \in AudioPaths :
    ( /\ run >= 2
      /\ skip_existing
      /\ faults = 0
      /\ prev.outcome[a] = "Embedded"
      /\ outcome[a] \in Terminal \ {"SidecarMissing"} )
    => outcome[a] = "LyricsAlreadyPresent"

\* C3: a file whose sidecar is missing ends in SidecarMissing: neither the
\* detector nor the mutator is called on it, its container is not saved, the
\* step changes neither the statistics nor the disk, the file is in no
\* failed_files, and the run does not fail.
C3_StepToMissing(a) == outcome[a] # "SidecarMissing" /\ outcome'[a] = "SidecarMissing"

C3_SidecarMissing ==
  /\ [](\A a \in AudioPaths :
          outcome[a] = "SidecarMissing" =>
            /\ detected[a] = "NotCalled"
            /\ a \notin mutated
            /\ a \notin saved
            /\ ~InFailedFiles(a)
            /\ ret # "Err"
            /\ exit_status # "failure")
  /\ [][\A a \in AudioPaths :
          /\ C3_StepToMissing(a) =>
               /\ files[LrcPath(a)] = NoFile
               /\ stats' = stats
               /\ UNCHANGED fsVars
          /\ (pc = "loop" /\ InLoop /\ a = audio_path /\ files[LrcPath(a)] = NoFile)
               => outcome'[a] = "SidecarMissing"]_vars

\* A finished, successful run in which a file without sidecar was passed over
\* while another file was embedded.
C3_Witness ==
  /\ pc = "idle" /\ exit_status = "success"
  /\ \E a \in AudioPaths : outcome[a] = "SidecarMissing"
  /\ stats.embedded_lyrics = 1

\* C4: a sidecar is deleted exactly when reduce-mode is on and the embedding of
\* its audio file succeeded: when embed_lrc_to_file has returned Ok the
\* sidecar is absent under --reduce and present, unchanged, at its own path
\* without it, and no other step removes a sidecar without renaming it.
C4_Deleted(p) == files[p] # NoFile /\ files'[p] = NoFile /\ renamed' = renamed

C4_ReduceDeletesOnSuccess ==
  /\ [](pc = "embed_ok" =>
          IF reduce_lrc THEN files[lrc_path] = NoFile
                        ELSE files[lrc_path] = lyrics_content /\ lyrics_content # NoValue)
  /\ [][\A p \in TxtPaths :
          C4_Deleted(p) => reduce_lrc /\ pc = "reduce" /\ pc' = "embed_ok" /\ p = lrc_path]_vars
  /\ [][pc = "embed_ok" => files' = files /\ outcome'[audio_path] = "Embedded"]_vars

\* A file embedded (and saved) under --reduce, its sidecar gone.
C4_Witness ==
  /\ pc = "returned" /\ reduce_lrc
  /\ \E a \in AudioPaths :
       /\ outcome[a] = "Embedded" /\ a \in saved
       /\ files[LrcPath(a)] = NoFile
       /\ files[FailedLrcPath(LrcPath(a))] = NoFile

\* C5: when embed_lrc_to_file fails the file ends in EmbedFailed: its path is
\* appended to failed_files, embedded_count stays, the sidecar is renamed to
\* its own name with ".failed" appended (never deleted); when the rename
\* fails nothing on disk changes; either way the loop goes on to the next file.
C5_StepToFailed(a) == outcome[a] # "EmbedFailed" /\ outcome'[a] = "EmbedFailed"

C5_FailureRecorded ==
  /\ [][pc = "embed_err" => C5_StepToFailed(audio_path)]_vars
  /\ [][\A a \in AudioPaths :
          C5_StepToFailed(a) =>
            LET p == LrcPath(a)
                f == FailedLrcPath(p) IN
            /\ pc = "embed_err" /\ a = audio_path
            /\ stats'.failed_files = Append(stats.failed_files, a)
            /\ stats'.embedded_lyrics = stats.embedded_lyrics
            /\ f.dir = p.dir /\ f.name = p.name \o <<"failed">>
            /\ \/ /\ files[p] # NoFile
                  /\ files' = [files EXCEPT ![f] = files[p], ![p] = NoFile]
                  /\ renamed' = renamed \cup {a}
               \/ files' = files /\ renamed' = renamed
            /\ container' = container
            /\ pc' = "loop" /\ idx' = idx + 1 /\ ret' = ret]_vars

\* A run that returned with two failed files, the sidecar of one renamed, that
\* of the other still in place because its rename failed.
C5_Witness ==
  /\ pc = "returned" /\ Len(stats.failed_files) = 2
  /\ \E a, b \in AudioPaths :
       /\ outcome[a] = "EmbedFailed" /\ a \in renamed
       /\ files[LrcPath(a)] = NoFile /\ files[FailedLrcPath(LrcPath(a))] # NoFile
       /\ outcome[b] = "EmbedFailed" /\ b \notin renamed
       /\ files[LrcPath(b)] # NoFile

\* C6 (as claimed): a file that ended a run in EmbedFailed ends the next run in
\* SidecarMissing, the mutator not called on it, not in failed_files again.
C6_NotReattempted ==
  \A a \in AudioPaths :
    (run >= 2 /\ prev.outcome[a] = "EmbedFailed" /\ outcome[a] \in Terminal)
    => (outcome[a] = "SidecarMissing" /\ a \notin mutated /\ ~InFailedFiles(a))

\* C6 (amended): a file that ended a run in EmbedFailed and whose sidecar was
\* renamed with the failure suffix ends the next run in SidecarMissing, the
\* mutator not called on it, not in failed_files again.
C6_NotReattemptedOnceRenamed ==
  \A a \in AudioPaths :
    (run >= 2 /\ prev.outcome[a] = "EmbedFailed" /\ a \in prev.renamed
       /\ outcome[a] \notin {"NotDiscovered", "Discovered"})
    => (outcome[a] = "SidecarMissing" /\ a \notin mutated /\ ~InFailedFiles(a))

\* The run after a failure whose sidecar was renamed passes the file over.
C6_Witness ==
  /\ run = 2
  /\ \E a \in AudioPaths :
       /\ prev.outcome[a] = "EmbedFailed" /\ a \in prev.renamed
       /\ outcome[a] = "SidecarMissing"

\* C7: no per-file error leaves its file: embed_lrc never returns an error and
\* the process never exits with failure; when embed_lrc has returned, every
\* file the scanner yielded has a terminal outcome; and the run terminates:
\* it is never stuck before the exit, and every step of it, a failing one
\* included, lowers the work that remains (C7_Measure), which is never negative.
C7_Rank ==
  CASE pc = "idle" -> 0
    [] pc = "returned" -> 1
    [] pc \in {"embed_ok", "embed_err"} -> 2
    [] pc = "reduce" -> 3
    [] pc = "mutate" -> 4
    [] pc = "embed" -> 5
    [] pc = "detect" -> 6
    [] pc = "loop" -> 7

C7_Measure ==
  IF pc = "scan"
  THEN 8 * (Cardinality(AudioPaths) + 2)
  ELSE 8 * (Len(audio_files) + 1 - idx) + C7_Rank

C7_ErrorsContained ==
  /\ [](ret # "Err" /\ exit_status # "failure")
  /\ [](Returned => \A i \in 1..Len(audio_files) : outcome[audio_files[i]] \in Terminal)
  /\ [](pc = "idle" /\ ret = "Ok" => exit_status = "success")
  /\ [](pc # "idle" => C7_Measure >= 0 /\ ENABLED Next)
  /\ [][pc # "idle" => C7_Measure' < C7_Measure]_vars

\* A run that exited with success although the first file failed; the second
\* file was embedded after it.
C7_Witness ==
  /\ pc = "idle" /\ exit_status = "success"
  /\ Len(audio_files) = 2
  /\ outcome[audio_files[1]] = "EmbedFailed"
  /\ outcome[audio_files[2]] = "Embedded"

\* C8: a file is in LyricsAlreadyPresent only under --skip after the detector
\* returned Ok(true) for it; the step there changes neither disk nor
\* statistics, the mutator is not called, the container not saved, the
\* sidecar neither renamed nor (even under --reduce) deleted.  Without --skip
\* the detector is never called and a file with a sidecar goes to Embedding.
C8_StepToPresent(a) == outcome[a] # "LyricsAlreadyPresent" /\ outcome'[a] = "LyricsAlreadyPresent"

C8_SkipOnlyOnPositive ==
  /\ [](\A a \in AudioPaths :
          outcome[a] = "LyricsAlreadyPresent" =>
            /\ skip_existing
            /\ detected[a] = "Present"
            /\ HasEmbeddedLyrics(a, container[a]) = "Present"
            /\ a \notin mutated /\ a \notin saved /\ a \notin renamed
            /\ ~InFailedFiles(a))
  /\ [](~skip_existing => \A a \in AudioPaths : detected[a] = "NotCalled")
  /\ [][\A a \in AudioPaths :
          C8_StepToPresent(a) => UNCHANGED fsVars /\ stats' = stats]_vars
  /\ [][(pc = "loop" /\ InLoop /\ files[lrc_path] # NoFile /\ ~skip_existing)
          => pc' = "embed" /\ outcome'[audio_path] = "Embedding"]_vars

\* A file skipped under --skip and --reduce, its sidecar still in place.
C8_Witness ==
  /\ pc = "returned" /\ skip_existing /\ reduce_lrc
  /\ \E a \in AudioPaths :
       /\ outcome[a] = "LyricsAlreadyPresent"
       /\ files[LrcPath(a)] # NoFile

\* C9: under --skip a failed detection is taken for "no lyrics": the step
\* changes neither disk nor statistics and hands the file to the mutator, so
\* the file is neither skipped nor failed by it; its outcome is Embedded when
\* embed_lrc_to_file returns Ok and EmbedFailed when it returns an error.
C9_DetectionErrorProceeds ==
  /\ [](\A a \in AudioPaths :
          detected[a] = "Err" =>
            /\ skip_existing
            /\ outcome[a] \in {"Embedding", "Embedded", "EmbedFailed"}
            /\ outcome[a] \in Terminal => a \in mutated)
  /\ [][\A a \in AudioPaths :
          (detected[a] # "Err" /\ detected'[a] = "Err") =>
            /\ pc' = "embed" /\ idx' = idx /\ a = audio_path
            /\ outcome'[a] = "Embedding"
            /\ stats' = stats
            /\ mutated' = mutated
            /\ UNCHANGED fsVars]_vars
  /\ [][/\ pc = "embed_ok" => outcome'[audio_path] = "Embedded"
        /\ pc = "embed_err" => outcome'[audio_path] = "EmbedFailed"]_vars

\* A file whose detection failed and whose embedding then succeeded.
C9_Witness ==
  \E a \in AudioPaths :
    /\ detected[a] = "Err"
    /\ outcome[a] = "Embedded"
    /\ a \in saved

\* C10 (as claimed): a file counted in embedded_count has had its container
\* saved with the lyric field of its format set to the sidecar's text.
C10_CountedMeansWritten ==
  \A a \in AudioPaths :
    outcome[a] = "Embedded" =>
      /\ a \in saved
      /\ container[a].fields[WrittenKey(Extension(a.name))] = SidecarText(LrcPath(a))

\* C11 (as claimed): a file whose tag write completed (its container was
\* saved) ends in Embedded even when the reduce-mode deletion of its sidecar
\* fails: it is counted, not put in failed_files, its sidecar not renamed.
C11_DeletionFailureNonFatal ==
  \A a \in AudioPaths :
    (a \in saved /\ outcome[a] \in Terminal)
    => (outcome[a] = "Embedded" /\ ~InFailedFiles(a) /\ a \notin renamed)

\* The place of a discovered file in the scan order.
C12_Pos(a) == CHOOSE i \in 1..Len(audio_files) : audio_files[i] = a

\* The steps a file's outcome may take within one run.
C12_Graph ==
  { <<"Discovered", "SidecarMissing">>, <<"Discovered", "LyricsAlreadyPresent">>,
    <<"Discovered", "Embedding">>, <<"Embedding", "Embedded">>,
    <<"Embedding", "EmbedFailed">> }

\* While the loop runs: the files before the cursor are finalized, the one at
\* the cursor is in progress, the ones after it untouched; failed_files has no
\* duplicates and follows the scan order.
C12_InOrder ==
  (pc \notin {"idle", "scan"}) =>
    /\ \A i, j \in 1..Len(audio_files) : audio_files[i] = audio_files[j] => i = j
    /\ \A a \in AudioPaths :
         (outcome[a] # "NotDiscovered") <=> (\E i \in 1..Len(audio_files) : audio_files[i] = a)
    /\ \A i \in 1..Len(audio_files) :
         /\ i < idx => outcome[audio_files[i]] \in Terminal
         /\ i = idx => outcome[audio_files[i]] \in {"Discovered", "Embedding"}
         /\ i > idx => outcome[audio_files[i]] = "Discovered"
    /\ \A i \in 1..Len(stats.failed_files) :
         /\ outcome[stats.failed_files[i]] = "EmbedFailed"
         /\ C12_Pos(stats.failed_files[i]) < idx
         /\ \A j \in 1..Len(stats.failed_files) :
              i < j => C12_Pos(stats.failed_files[i]) < C12_Pos(stats.failed_files[j])

\* C12: within a run every discovered file is processed once, in scan order:
\* its outcome only moves along Discovered -> SidecarMissing |
\* LyricsAlreadyPresent | Embedding -> Embedded | EmbedFailed, a terminal
\* outcome is never left, only the file at the cursor moves, and failed_files
\* is a duplicate-free subsequence of the scan order.
C12_ProcessedOnceInOrder ==
  /\ []C12_InOrder
  /\ [][(pc \notin {"idle", "scan"}) =>
          \A a \in AudioPaths :
            outcome'[a] # outcome[a] =>
              /\ <<outcome[a], outcome'[a]>> \in C12_Graph
              /\ InLoop /\ a = audio_path
              /\ outcome'[a] \in Terminal => (idx' = idx + 1 /\ pc' = "loop")]_vars

\* Both files of a tree were processed, the first one failed and the second
\* one was finalized after it.
C12_Witness ==
  /\ pc = "returned"
  /\ Len(audio_files) = 2
  /\ stats.failed_files = << audio_files[1] >>
  /\ outcome[audio_files[2]] = "Embedded"

\* The regular files with a supported extension under the directory, at the
\* depth the flag allows, whether or not a sidecar lies next to them.
C13_AudioUnderRoot ==
  IF root_exists THEN {a \in present : recursive \/ Depth(a) <= 1} ELSE {}

\* C13: total_audio_files is set once per run, by the scan and before any file
\* is processed, to the number of regular files with a supported extension
\* under the directory at the configured depth, with or without sidecar; the
\* per-file processing never changes it; a directory that does not exist
\* gives 0 and a successful exit.
C13_TotalSetByScan ==
  /\ [](pc = "scan" => (stats.total_audio_files = 0 /\ mutated = {} /\ outcome = NoOutcome))
  /\ []((pc \notin {"idle", "scan"} \/ (pc = "idle" /\ ret = "Ok"))
          => stats.total_audio_files = Cardinality(C13_AudioUnderRoot))
  /\ [][(pc \notin {"idle", "scan"}) => stats'.total_audio_files = stats.total_audio_files]_vars
  /\ []((~root_exists /\ pc = "idle" /\ ret = "Ok")
          => (stats.total_audio_files = 0 /\ exit_status = "success"))

\* Two files were counted although one of them has no sidecar.
C13_Witness ==
  /\ pc = "returned"
  /\ stats.total_audio_files = 2
  /\ \E a \in AudioPaths : outcome[a] = "SidecarMissing" /\ files[LrcPath(a)] = NoFile

\* A run on a directory that does not exist has ended.
C13_WitnessNoRoot == ~root_exists /\ pc = "idle" /\ ret = "Ok" /\ exit_status = "success"

\* The file was left alone by the run: not scanned, detector and mutator not
\* called on it, its container and its sidecar as the run found them.
C14_Untouched(a) ==
  /\ outcome[a] = "NotDiscovered"
  /\ \A i \in 1..Len(audio_files) : audio_files[i] # a
  /\ detected[a] = "NotCalled" /\ a \notin mutated
  /\ container[a] = start.container[a]
  /\ files[LrcPath(a)] = start.files[LrcPath(a)]
  /\ files[FailedLrcPath(LrcPath(a))] = start.files[FailedLrcPath(LrcPath(a))]

\* C14: an audio file in a direct subdirectory, with its sidecar, is left out
\* of total_audio_files and left alone when recursion is off, and is counted
\* and processed when it is on; the files directly in the directory are
\* counted and processed in both modes.
C14_RecursionBoundary ==
  (pc \notin {"idle", "scan"}) =>
    \A a \in present :
      /\ (Depth(a) = 1 \/ recursive) =>
           /\ \E i \in 1..Len(audio_files) : audio_files[i] = a
           /\ outcome[a] # "NotDiscovered"
           /\ pc = "returned" => outcome[a] \in Terminal
      /\ (Depth(a) = 2 /\ ~recursive) =>
           /\ C14_Untouched(a)
           /\ stats.total_audio_files = Cardinality({b \in present : Depth(b) = 1})
      /\ (Depth(a) = 2 /\ recursive) =>
           stats.total_audio_files = Cardinality(present)

\* A run without recursion has ended and left the subdirectory's file, which
\* has a sidecar, alone; the file in the directory itself was embedded.
C14_Witness ==
  /\ pc = "returned" /\ ~recursive
  /\ AudioM4a \in present /\ files[LrcPath(AudioM4a)] # NoFile
  /\ outcome[AudioM4a] = "NotDiscovered"
  /\ outcome[AudioFlac] = "Embedded"

\* A run with recursion has embedded the subdirectory's file.
C14_WitnessRecursive ==
  pc = "returned" /\ recursive /\ outcome[AudioM4a] = "Embedded" /\ AudioM4a \in saved

\* C15 (as claimed): an invocation with --dry-run on a directory holding an
\* audio file and its sidecar exits successfully, prints the [DRY RUN]
\* indicator and leaves the containers as they were.
C15_DryRun ==
  ("dry-run" \in argv /\ pc = "idle" /\ run > 0)
  => /\ exit_status = "success"
     /\ "[DRY RUN]" \in stdout
     /\ container = start.container

\* C16 (as claimed): what a file's processing reads is its own container and
\* its sidecar path as the run found them, whatever the run did to the files
\* before it, two files of one stem that share a sidecar included: when the
\* loop takes a file up its container and its sidecar path are as at the start
\* of the run, and it ends in SidecarMissing only if the sidecar was missing
\* when the run started.
C16_IndependentOfOtherFiles ==
  \A a \in AudioPaths :
    /\ (pc = "loop" /\ InLoop /\ audio_path = a)
         => /\ container[a] = start.container[a]
            /\ files[LrcPath(a)] = start.files[LrcPath(a)]
    /\ outcome[a] = "SidecarMissing" => start.files[LrcPath(a)] = NoFile

\* The text is in the lyric field the mutator writes of a readable container
\* of an audio file the sidecar path p belongs to.
C17_Persisted(p, text) ==
  \E a \in present :
    /\ LrcPath(a) = p
    /\ ~container[a].corrupt /\ container[a].has_tag
    /\ container[a].fields[WrittenKey(Extension(a.name))] = text

\* C17 (as claimed): under --reduce no lyric text is lost: the text of every
\* sidecar the run found is, at every point of the run, still on disk at the
\* sidecar's path or at its failure-suffixed path, or is in the lyric field of
\* its audio file's container.
C17_NoLyricsLost ==
  reduce_lrc =>
    \A a \in AudioPaths :
      LET p == LrcPath(a) IN
      start.files[p] # NoFile =>
        \/ files[p] = start.files[p]
        \/ files[FailedLrcPath(p)] = start.files[p]
        \/ C17_Persisted(p, start.files[p])

\* C18 (as claimed): the mutator replaces: after a successful embed the field
\* of the written class holds the full text of the sidecar, whatever it held
\* before; and a second run without --skip over an unchanged sidecar embeds
\* the file again and leaves its container as the first run left it.
C18_ReplacesAndIsIdempotent ==
  \A a \in AudioPaths :
    /\ outcome[a] = "Embedded" =>
         /\ container[a].has_tag
         /\ container[a].fields[WrittenKey(Extension(a.name))] = start.files[LrcPath(a)]
    /\ (run >= 2 /\ ~skip_existing /\ prev.outcome[a] = "Embedded" /\ outcome[a] = "Embedded")
         => container[a] = start.container[a]

\* C19: every path the loop hands to has_embedded_lyrics and to
\* embed_lrc_to_file has one of the three extensions the two functions
\* branch on: the detector never falls through for want of a branch and the
\* dispatch never returns UnsupportedFormat, whatever the I/O does.
C19_UnsupportedFormatUnreachable ==
  /\ \A i \in 1..Len(audio_files) :
       /\ DetectorBranch(audio_files[i]) # "none"
       /\ Extension(audio_files[i].name) \in {"flac", "mp3", "m4a"}
  /\ pc = "detect" => DetectorBranch(audio_path) # "none"
  /\ pc = "mutate" =>
       \A io \in IoChoices :
         EmbedDispatch(audio_path, container[audio_path], lyrics_content, io).err
           # "UnsupportedFormat"

\* The detector and the dispatch have both run on the .m4a file while a file
\* named c.FLAC lies in the directory.
C19_Witness ==
  /\ \E e \in Walker(recursive) : e.is_file /\ Extension(e.path.name) = "FLAC"
  /\ detected[AudioM4a] = "Absent"
  /\ AudioM4a \in saved

====
